---- MODULE Spec2Model ----
(***************************************************************************)
(* Model of src/app.py: the visual-comparison pipeline.                    *)
(*                                                                         *)
(*   validate_url, download_image_as_bytes, capture_screenshot_as_bytes,   *)
(*   compare_images_bytes          -- the leaf functions, as operators     *)
(*   process_row                   -- the row processor                    *)
(*   process_google_sheet          -- the coordinator and its worker pool  *)
(*                                                                         *)
(* Conventions.                                                            *)
(*   - A Python call either returns a value or raises: an outcome is the   *)
(*     record [exc |-> name of the exception or "", val |-> value].        *)
(*   - Strings are sequences of tokens; a cell that holds a number (gspread*)
(*     turns numeric cells into int) is [str |-> FALSE, toks |-> <<>>].    *)
(*   - Image bytes are a blob [fmt, w, h, lum]; fmt "png" decodes to a     *)
(*     w x h raster of uniform luminance lum, fmt "html" is a non-empty    *)
(*     body that is no image, fmt "empty" is a zero-length buffer.         *)
(*   - A similarity is an integer number of hundredths of a percent:       *)
(*     round(x * 100, 2) = 87.25 is 8725, and 0.0 is 0.                    *)
(***************************************************************************)
EXTENDS Integers, Sequences, FiniteSets, Bags, TLC

VARIABLES
    \* ---- process_google_sheet (coordinator, outer pool) ----
    pcMain,      \* position of the coordinator in process_google_sheet
    sheet,       \* the remote worksheet: its table and the updates it received
    df,          \* the DataFrame: index -> [row, match, writes]
    queue,       \* outer executor's FIFO work queue (row indices)
    nthreads,    \* outer executor's spawned worker threads
    rowst,       \* index -> "none" | "queued" | "running" | "done" | "yielded"
    started,     \* index -> number of times process_row was entered for it
    env,         \* index -> what the outside world answers while the row runs
    future,      \* index -> outcome of process_row held by the row's Future
    results,     \* the list `results`
    mergeK,      \* position of the loop of line 127 in `results`
    log,         \* the lines the except handlers printed (as a set)
    files,       \* paths written under website_screenshots/
    excel,       \* the local export: its table and the times it was written
    \* ---- one process_row call, statement by statement ----
    rpc,         \* position inside process_row
    rin,         \* [index, row]: the call's arguments
    task,        \* inner future name -> state of that task
    browsers,    \* inner future names whose webdriver is open
    launched,    \* inner future name -> number of webdriver.Chrome() launches
    rfiles,      \* paths this call has written
    rlocal,      \* locals website_url, mobile_similarity, and the exception in flight
    rret,        \* outcome of the call once it has returned
    rlog,        \* the lines this call printed (as a set)
    \* ---- calls of the leaf functions ----
    fpc, fin, fout, fgets,   \* download_image_as_bytes: input, outcome, GETs sent
    spc, sin, sout,          \* compare_images_bytes: input, outcome
    \* ---- both pools together, rows and tasks counted ----
    cpc,         \* position of the coordinator
    csub,        \* rows submitted to the outer executor
    cqueue,      \* rows waiting in the outer executor's work queue
    cthreads,    \* outer executor's spawned worker threads
    crows,       \* bag of the rows inside process_row before its join: [f, p, o]
    cdone,       \* rows whose future is done and not yet yielded by as_completed
    cyield,      \* rows yielded by as_completed
    cmerge       \* tuples of `results` merged into the table

pipeVars == <<pcMain, sheet, df, queue, nthreads, rowst, started, env, future,
              results, mergeK, log, files, excel>>
rowVars == <<rpc, rin, task, browsers, launched, rfiles, rlocal, rret, rlog>>
fetchVars == <<fpc, fin, fout, fgets>>
scoreVars == <<spc, sin, sout>>
countVars == <<cpc, csub, cqueue, cthreads, crows, cdone, cyield, cmerge>>
vars == <<pipeVars, rowVars, fetchVars, scoreVars, countVars>>

----------------------------------------------------------------------------
(* Bounds of the model *)

\* rows of the sheet in the pipeline specification
MaxRows == 2
\* luminance levels of the images the outside world can supply
NumLums == 2
\* rows of the sheet beyond max_workers in the pool specification
ExtraRows == 1

(* Program constants *)

\* ThreadPoolExecutor(max_workers=10)
max_workers == 10
\* structural_similarity's default win_size
win_size == 7

----------------------------------------------------------------------------
(* Python values *)

None == [t |-> "None", b |-> [fmt |-> "", w |-> 0, h |-> 0, lum |-> 0]]
BytesIO(blob) == [t |-> "BytesIO", b |-> blob]
\* truth value of `x` in `if x`: None is false, a BytesIO object is true
\* whatever it holds (BytesIO defines neither __bool__ nor __len__)
Truthy(x) == x.t = "BytesIO"

Ret(v) == [exc |-> "", val |-> v]
Raise(e) == [exc |-> e, val |-> None]
Raised(o) == o.exc # ""

Str(toks) == [str |-> TRUE, toks |-> toks]
NumCell == [str |-> FALSE, toks |-> <<>>]

LumLevels == <<255, 0, 128, 64>>
Lums == {LumLevels[k] : k \in 1..NumLums}
Png(w, h, lum) == [fmt |-> "png", w |-> w, h |-> h, lum |-> lum]
EmptyBlob == [fmt |-> "empty", w |-> 0, h |-> 0, lum |-> 0]
HtmlBlob == [fmt |-> "html", w |-> 0, h |-> 0, lum |-> 0]

----------------------------------------------------------------------------
(* String helpers: str.split and the `in` operator on token sequences *)

Contains(s, tok) == \E k \in DOMAIN s : s[k] = tok
IndexOf(s, tok) ==
    IF Contains(s, tok) THEN CHOOSE k \in DOMAIN s :
            s[k] = tok /\ \A j \in 1..(k - 1) : s[j] # tok
    ELSE 0
\* s.split(tok)[0]
SplitFirst(s, tok) ==
    IF IndexOf(s, tok) = 0 THEN s ELSE SubSeq(s, 1, IndexOf(s, tok) - 1)
\* s.split(tok)[1]; only defined when tok occurs in s (IndexError otherwise)
SplitSecond(s, tok) ==
    SplitFirst(SubSeq(s, IndexOf(s, tok) + 1, Len(s)), tok)

Schemes == {"https://", "http://"}
\* urlparse(url).scheme is non-empty
HasScheme(toks) == Len(toks) > 0 /\ toks[1] \in Schemes

\* validate_url(url): prefix https:// when urlparse finds no scheme;
\* urlparse raises on a value that is not a string.
validate_url(url) ==
    IF ~url.str THEN Raise("AttributeError")
    ELSE IF HasScheme(url.toks) THEN Ret(url)
    ELSE Ret(Str(<<"https://">> \o url.toks))

----------------------------------------------------------------------------
(* Asset fetcher: download_image_as_bytes *)

\* What the network answers to one GET: a 2xx response with a body, a
\* non-success status, a connection error, or no answer within timeout=10.
NetOk(blob) == [kind |-> "ok", body |-> blob]
NetFail(kind) == [kind |-> kind, body |-> EmptyBlob]

\* lines 26-27: the locator the GET goes to
download_url(drive_link) ==
    IF ~drive_link.str THEN Raise("TypeError")
    ELSE IF Contains(drive_link.toks, "drive.google.com")
    THEN IF ~Contains(drive_link.toks, "/d/") THEN Raise("IndexError")
         ELSE LET file_id == SplitFirst(SplitSecond(drive_link.toks, "/d/"), "/")
              IN  IF file_id # <<>>
                  THEN Ret(Str(<<"https://", "drive.google.com", "/uc?id=">>
                               \o file_id \o <<"&export=download">>))
                  ELSE Ret(drive_link)
    ELSE Ret(drive_link)

\* lines 28-30: requests.get, raise_for_status, BytesIO(response.content);
\* gets counts the requests put on the wire.
requests_get(url, net) ==
    IF ~HasScheme(url.toks) THEN [exc |-> "MissingSchema", val |-> None, gets |-> 0]
    ELSE IF net.kind = "connerr" THEN [exc |-> "ConnectionError", val |-> None, gets |-> 1]
    ELSE IF net.kind = "timeout" THEN [exc |-> "Timeout", val |-> None, gets |-> 1]
    ELSE IF net.kind = "status" THEN [exc |-> "HTTPError", val |-> None, gets |-> 1]
    ELSE [exc |-> "", val |-> BytesIO(net.body), gets |-> 1]

\* lines 28-30 once lines 26-27 have ended with outcome u
download_request(u, net) ==
    IF Raised(u) THEN [exc |-> u.exc, val |-> None, gets |-> 0]
    ELSE requests_get(u.val, net)

\* lines 25-30: the body of the try block
download_try(drive_link, net) == download_request(download_url(drive_link), net)

\* an except clause that catches the errors of requests only
download_except_requests_only(t) ==
    IF t.exc \in {"IndexError", "TypeError"} THEN Raise(t.exc)
    ELSE IF Raised(t) THEN Ret(None) ELSE Ret(t.val)

\* lines 31-33: except Exception -> print, return None
download_except(t) == IF Raised(t) THEN Ret(None) ELSE Ret(t.val)

\* lines 24-33
download_image_as_bytes(drive_link, net) ==
    download_except(download_try(drive_link, net))

\* requests sent by one call
download_gets(drive_link, net) == download_try(drive_link, net).gets

----------------------------------------------------------------------------
(* Similarity scorer: compare_images_bytes *)

NoRaster == [none |-> TRUE, w |-> 0, h |-> 0, lum |-> 0]
Raster(w, h, lum) == [none |-> FALSE, w |-> w, h |-> h, lum |-> lum]

\* cv2.imdecode(np.frombuffer(x.getbuffer(), np.uint8), IMREAD_GRAYSCALE):
\* None has no getbuffer; OpenCV asserts !buf.empty() on a zero-length
\* buffer; bytes that are no image decode to None.
imdecode(x) ==
    IF x.t = "None" THEN Raise("AttributeError")
    ELSE IF x.b.fmt = "empty" THEN Raise("cv2.error")
    ELSE IF x.b.fmt = "png" THEN Ret(Raster(x.b.w, x.b.h, x.b.lum))
    ELSE Ret(NoRaster)

\* cv2.resize(img2, (img1.shape[1], img1.shape[0]))
resize(img, w, h) == Raster(w, h, img.lum)

\* long division: <<acc * 10^n + floor(r * 10^n / den), remainder>>
RECURSIVE LongDiv(_, _, _, _)
LongDiv(acc, r, den, n) ==
    IF n = 0 THEN <<acc, r>>
    ELSE LongDiv(acc * 10 + (r * 10) \div den, (r * 10) % den, den, n - 1)

\* round(num / den * 100, 2) in hundredths of a percent, for 0 <= num <= den
RoundPercent(num, den) ==
    LET q == LongDiv(num \div den, num % den, den, 4)
    IN  IF 2 * q[2] >= den THEN q[1] + 1 ELSE q[1]

\* structural_similarity(img1, img2, full=True) on two uniform rasters of
\* equal size: both variances and the covariance are 0, so the index is
\* (2ab + C1) / (a^2 + b^2 + C1) with C1 = (0.01 * 255)^2 = 6.5025; numerator
\* and denominator are scaled by 400 to stay in the integers. skimage raises
\* ValueError when win_size exceeds a side of the image.
ssim(img1, img2) ==
    IF img1.w < win_size \/ img1.h < win_size THEN Raise("ValueError")
    ELSE Ret(RoundPercent(800 * img1.lum * img2.lum + 2601,
                          400 * (img1.lum * img1.lum + img2.lum * img2.lum) + 2601))

\* lines 56-60 once lines 54-55 have ended with outcomes img1 and img2
compare_decoded(img1, img2) ==
    IF Raised(img1) THEN Raise(img1.exc)
    ELSE IF Raised(img2) THEN Raise(img2.exc)
    ELSE IF img1.val.none \/ img2.val.none THEN Ret(0)
    ELSE ssim(img1.val, resize(img2.val, img1.val.w, img1.val.h))

\* lines 53-60; the result is Ret(hundredths of a percent) or Raise
compare_images_bytes(img1_bytes, img2_bytes) ==
    compare_decoded(imdecode(img1_bytes), imdecode(img2_bytes))

----------------------------------------------------------------------------
(* Renderer client: capture_screenshot_as_bytes *)

\* What the browser does in one call: launch "ok" or "fail" (webdriver.Chrome
\* or ChromeDriverManager().install() raises), and page "ok", "nav"
\* (driver.get raises), "timeout" (WebDriverWait raises) or "shot"
\* (get_screenshot_as_png raises); lum is what the page looks like.
Cap(launch, page, lum) == [launch |-> launch, page |-> page, lum |-> lum]

\* the PNG the driver hands back: device emulation changes the raster size
Screenshot(mobile_view, lum) ==
    IF mobile_view THEN Png(1125, 2436, lum) ELSE Png(1920, 1080, lum)

\* lines 43-49: the try block and its except clause, with the driver open
capture_page(url, mobile_view, cap) ==
    IF Len(url.toks) < 2 \/ cap.page # "ok" THEN Ret(None)
    ELSE Ret(BytesIO(Screenshot(mobile_view, cap.lum)))

\* line 41: webdriver.Chrome(...) gives a driver or raises; it stands before
\* the try block
capture_launch(cap) ==
    IF cap.launch # "ok" THEN Raise("WebDriverException") ELSE Ret(None)

\* lines 35-51 as one call
capture_screenshot_as_bytes(url, mobile_view, cap) ==
    IF Raised(capture_launch(cap)) THEN capture_launch(cap)
    ELSE capture_page(url, mobile_view, cap)

----------------------------------------------------------------------------
(* Row processor: process_row, as one call *)

\* the four inner futures, in the order lines 81-84 submit them and lines
\* 86-89 read them
Tasks == <<"mobile_ref", "desktop_ref", "mobile_site", "desktop_site">>
TaskSet == {Tasks[k] : k \in 1..4}
IsCapture(t) == t \in {"mobile_site", "desktop_site"}
MobileView(t) == t = "mobile_site"

\* os.path.join(output_dir, f"mobile_{index}.png") / f"desktop_{index}.png"
Path(view, index) == <<"website_screenshots", view, index>>

\* What the outside world answers during one process_row call: the two GETs,
\* the two browsers, and the disk (fs names the operation that raises OSError:
\* "mkdir", "wmobile", "wdesktop", or "ok" when none does).
World(mnet, dnet, mcap, dcap, fs) ==
    [mnet |-> mnet, dnet |-> dnet, mcap |-> mcap, dcap |-> dcap, fs |-> fs]

\* lines 75-77
row_lookup(row) ==
    IF ~row.cols THEN Raise("KeyError") ELSE validate_url(row.url)

\* the outcome each inner future holds once its task has run
task_outcome(t, row, url, e) ==
    CASE t = "mobile_ref" -> download_image_as_bytes(row.mobile, e.mnet)
      [] t = "desktop_ref" -> download_image_as_bytes(row.desktop, e.dnet)
      [] t = "mobile_site" -> capture_screenshot_as_bytes(url, TRUE, e.mcap)
      [] t = "desktop_site" -> capture_screenshot_as_bytes(url, FALSE, e.dcap)

\* lines 86-89: future.result() in submission order re-raises the first
\* exception a task ended with
first_raised(outs) ==
    IF \E k \in 1..4 : Raised(outs[Tasks[k]])
    THEN outs[Tasks[CHOOSE k \in 1..4 :
                       /\ Raised(outs[Tasks[k]])
                       /\ \A j \in 1..(k - 1) : ~Raised(outs[Tasks[j]])]].exc
    ELSE ""

\* lines 92-104: [exc, files] of the persistence step
persist(index, mobile_site, desktop_site, fs) ==
    IF fs = "mkdir" THEN [exc |-> "OSError", files |-> {}]
    ELSE IF Truthy(mobile_site) /\ fs = "wmobile" THEN [exc |-> "OSError", files |-> {}]
    ELSE LET m == IF Truthy(mobile_site) THEN {Path("mobile", index)} ELSE {}
         IN  IF Truthy(desktop_site) /\ fs = "wdesktop"
             THEN [exc |-> "OSError", files |-> m]
             ELSE [exc |-> "", files |->
                     m \cup IF Truthy(desktop_site) THEN {Path("desktop", index)} ELSE {}]

\* lines 107-108: one viewport's similarity
similarity(ref, site) ==
    IF Truthy(ref) /\ Truthy(site) THEN compare_images_bytes(ref, site) ELSE Ret(0)

NoScores == <<0, 0>>

\* lines 107-110 once the two similarities have been computed
row_pair(m, d) ==
    IF Raised(m) THEN Raise(m.exc)
    ELSE IF Raised(d) THEN Raise(d.exc)
    ELSE Ret(<<m.val, d.val>>)

\* lines 107-110
row_scores(mobile_ref, desktop_ref, mobile_site, desktop_site) ==
    row_pair(similarity(mobile_ref, mobile_site), similarity(desktop_ref, desktop_site))

\* lines 92-110 once persistence has ended with p: scoring runs only if it
\* did not raise
row_persisted(p, s) ==
    IF p.exc # "" THEN [exc |-> p.exc, val |-> NoScores, files |-> p.files]
    ELSE IF Raised(s) THEN [exc |-> s.exc, val |-> NoScores, files |-> p.files]
    ELSE [exc |-> "", val |-> s.val, files |-> p.files]

\* lines 86-110 on the outcomes of the four inner futures
row_after_join(index, outs, fs) ==
    IF first_raised(outs) # ""
    THEN [exc |-> first_raised(outs), val |-> NoScores, files |-> {}]
    ELSE row_persisted(
            persist(index, outs["mobile_site"].val, outs["desktop_site"].val, fs),
            row_scores(outs["mobile_ref"].val, outs["desktop_ref"].val,
                       outs["mobile_site"].val, outs["desktop_site"].val))

\* lines 80-110 once lines 75-77 have ended with outcome url
row_tasks(index, row, e, url) ==
    IF Raised(url) THEN [exc |-> url.exc, val |-> NoScores, files |-> {}]
    ELSE row_after_join(index,
                        [t \in TaskSet |-> task_outcome(t, row, url.val, e)], e.fs)

\* lines 75-110: the body of the try block; [exc, val, files]
row_try(index, row, e) == row_tasks(index, row, e, row_lookup(row))

\* an except clause that prints nothing and lets the exception go on
row_reraise(index, exc) == [exc |-> exc, val |-> NoScores, log |-> {}]

\* lines 111-113: print(f"Error processing row {index}: {e}"); return 0.0, 0.0
row_except(index, exc) ==
    [exc |-> "", val |-> NoScores, log |-> {<<"Error processing row", index>>}]

\* lines 73-113 once the try block has ended with r; [exc, val, files, log]
row_end(index, r) ==
    IF r.exc # ""
    THEN [exc |-> row_except(index, r.exc).exc, val |-> row_except(index, r.exc).val,
          files |-> r.files, log |-> row_except(index, r.exc).log]
    ELSE [exc |-> "", val |-> r.val, files |-> r.files, log |-> {}]

\* lines 73-113
process_row(index, row, e) == row_end(index, row_try(index, row, e))

----------------------------------------------------------------------------
(* The inputs the model draws from *)

DriveLink == Str(<<"https://", "drive.google.com", "/file", "/d/", "F1", "/", "view">>)
DriveNoId == Str(<<"https://", "drive.google.com", "/open?id=F1">>)
DriveEmptyId == Str(<<"https://", "drive.google.com", "/file", "/d/", "/", "view">>)
DriveBare == Str(<<"drive.google.com", "/file", "/d/", "F2">>)
PlainLink == Str(<<"https://", "cdn.example", "/ref.png">>)
NoSchemeLink == Str(<<"cdn.example", "/ref.png">>)
EmptyStr == Str(<<>>)
Links == {DriveLink, DriveNoId, DriveEmptyId, DriveBare, PlainLink,
          NoSchemeLink, EmptyStr, NumCell}

RefBlobs == {EmptyBlob, HtmlBlob, Png(5, 5, 255)} \cup {Png(100, 100, l) : l \in Lums}
NetAnswers == {NetOk(b) : b \in RefBlobs}
              \cup {NetFail(k) : k \in {"status", "connerr", "timeout"}}
PageKinds == {"ok", "nav", "timeout", "shot"}

Row(cols, mobile, desktop, url) ==
    [cols |-> cols, mobile |-> mobile, desktop |-> desktop, url |-> url]
\* rows of a sheet with the three columns, and one of a sheet without them
GoodRow == Row(TRUE, DriveLink, PlainLink, Str(<<"example.com">>))
BadLinksRow == Row(TRUE, DriveNoId, NumCell, Str(<<"https://", "example.com">>))
NumUrlRow == Row(TRUE, PlainLink, DriveLink, NumCell)
EmptyUrlRow == Row(TRUE, PlainLink, PlainLink, EmptyStr)
NoColsRow == Row(FALSE, EmptyStr, EmptyStr, EmptyStr)
RowInputs == {GoodRow, BadLinksRow, NumUrlRow, EmptyUrlRow, NoColsRow}

----------------------------------------------------------------------------
(* Row processor: one process_row call, statement by statement *)

Pending == [st |-> "pending", out |-> Ret(None)]
NoTask == [st |-> "none", out |-> Ret(None)]
NotReturned == [done |-> FALSE, exc |-> "", val |-> NoScores]
Returned(o) == [done |-> TRUE, exc |-> o.exc, val |-> o.val]

InitRowIdle ==
    /\ rpc = "idle"
    /\ rin = [index |-> 0, row |-> NoColsRow]
    /\ task = [t \in TaskSet |-> NoTask]
    /\ browsers = {}
    /\ launched = [t \in TaskSet |-> 0]
    /\ rfiles = {}
    /\ rlocal = [url |-> EmptyStr, exc |-> "", m |-> 0]
    /\ rret = NotReturned
    /\ rlog = {}

\* lines 75-77
RowLookup ==
    /\ rpc = "lookup"
    /\ LET u == row_lookup(rin.row)
       IN  IF Raised(u)
           THEN /\ rpc' = "except"
                /\ rlocal' = [rlocal EXCEPT !.exc = u.exc]
           ELSE /\ rpc' = "submit"
                /\ rlocal' = [rlocal EXCEPT !.url = u.val]
    /\ UNCHANGED <<rin, task, browsers, launched, rfiles, rret, rlog>>

\* lines 80-84: the inner executor and its four submits
RowSubmit ==
    /\ rpc = "submit"
    /\ task' = [t \in TaskSet |-> Pending]
    /\ rpc' = "join"
    /\ UNCHANGED <<rin, browsers, launched, rfiles, rlocal, rret, rlog>>

\* an inner worker runs download_image_as_bytes (lines 24-33)
FetchRun(t) ==
    /\ rpc = "join"
    /\ ~IsCapture(t)
    /\ task[t].st = "pending"
    /\ \E net \in NetAnswers :
         LET link == IF t = "mobile_ref" THEN rin.row.mobile ELSE rin.row.desktop
         IN  task' = [task EXCEPT ![t] =
                        [st |-> "done", out |-> download_image_as_bytes(link, net)]]
    /\ UNCHANGED <<rpc, rin, browsers, launched, rfiles, rlocal, rret, rlog>>

\* line 41: webdriver.Chrome(...), outside the try block
CaptureLaunch(t) ==
    /\ rpc = "join"
    /\ IsCapture(t)
    /\ task[t].st = "pending"
    /\ \E launch \in {"ok", "fail"} :
         LET c == capture_launch(Cap(launch, "ok", 0))
         IN  IF Raised(c)
             THEN /\ task' = [task EXCEPT ![t] = [st |-> "done", out |-> c]]
                  /\ UNCHANGED <<browsers, launched>>
             ELSE /\ task' = [task EXCEPT ![t].st = "open"]
                  /\ browsers' = browsers \cup {t}
                  /\ launched' = [launched EXCEPT ![t] = @ + 1]
    /\ UNCHANGED <<rpc, rin, rfiles, rlocal, rret, rlog>>

\* lines 43-49: get, wait, screenshot; the except clause turns an error to None
CapturePage(t) ==
    /\ rpc = "join"
    /\ task[t].st = "open"
    /\ \E page \in PageKinds, lum \in Lums :
         task' = [task EXCEPT ![t] =
                    [st |-> "closing",
                     out |-> capture_page(rlocal.url, MobileView(t),
                                          Cap("ok", page, lum))]]
    /\ UNCHANGED <<rpc, rin, browsers, launched, rfiles, rlocal, rret, rlog>>

\* driver.quit() as the last statement of the try block instead of in finally
quit_on_success(open, t, out) == IF Truthy(out.val) THEN open \ {t} ELSE open

\* the drivers open after the finally clause of a call that ends with `out`
driver_quit(open, t, out) == open \ {t}

\* lines 50-51: finally: driver.quit(); then the call returns
CaptureQuit(t) ==
    /\ rpc = "join"
    /\ task[t].st = "closing"
    /\ browsers' = driver_quit(browsers, t, task[t].out)
    /\ task' = [task EXCEPT ![t].st = "done"]
    /\ UNCHANGED <<rpc, rin, launched, rfiles, rlocal, rret, rlog>>

\* wait(futures, return_when=FIRST_EXCEPTION): the row goes on as soon as
\* one task has raised
join_first_exception(ts) ==
    \/ \A t \in TaskSet : ts[t].st = "done"
    \/ \E t \in TaskSet : ts[t].st = "done" /\ Raised(ts[t].out)

\* line 80: the with block is left when shutdown(wait=True) has joined the
\* worker threads, that is when each of the four tasks has finished
join_ready(ts) == \A t \in TaskSet : ts[t].st = "done"

\* line 80: leaving the with block waits for the four tasks (shutdown(wait=True))
RowJoin ==
    /\ rpc = "join"
    /\ join_ready(task)
    /\ rpc' = "results"
    /\ UNCHANGED <<rin, task, browsers, launched, rfiles, rlocal, rret, rlog>>

Outs == [t \in TaskSet |-> task[t].out]

\* lines 86-89
RowResults ==
    /\ rpc = "results"
    /\ IF first_raised(Outs) # ""
       THEN /\ rpc' = "except"
            /\ rlocal' = [rlocal EXCEPT !.exc = first_raised(Outs)]
       ELSE /\ rpc' = "makedirs"
            /\ UNCHANGED rlocal
    /\ UNCHANGED <<rin, task, browsers, launched, rfiles, rret, rlog>>

\* lines 92-93
RowMakedirs ==
    /\ rpc = "makedirs"
    /\ \E fs \in {"ok", "mkdir"} :
         LET p == persist(rin.index, None, None, fs)
         IN  IF p.exc # ""
             THEN /\ rpc' = "except"
                  /\ rlocal' = [rlocal EXCEPT !.exc = p.exc]
             ELSE /\ rpc' = "write_mobile"
                  /\ UNCHANGED rlocal
    /\ UNCHANGED <<rin, task, browsers, launched, rfiles, rret, rlog>>

\* lines 98-100
RowWriteMobile ==
    /\ rpc = "write_mobile"
    /\ \E fs \in {"ok", "wmobile"} :
         LET p == persist(rin.index, task["mobile_site"].out.val, None, fs)
         IN  IF p.exc # ""
             THEN /\ rpc' = "except"
                  /\ rlocal' = [rlocal EXCEPT !.exc = p.exc]
                  /\ UNCHANGED rfiles
             ELSE /\ rpc' = "write_desktop"
                  /\ rfiles' = rfiles \cup p.files
                  /\ UNCHANGED rlocal
    /\ UNCHANGED <<rin, task, browsers, launched, rret, rlog>>

\* lines 102-104
RowWriteDesktop ==
    /\ rpc = "write_desktop"
    /\ \E fs \in {"ok", "wdesktop"} :
         LET p == persist(rin.index, None, task["desktop_site"].out.val, fs)
         IN  IF p.exc # ""
             THEN /\ rpc' = "except"
                  /\ rlocal' = [rlocal EXCEPT !.exc = p.exc]
                  /\ UNCHANGED rfiles
             ELSE /\ rpc' = "compare_mobile"
                  /\ rfiles' = rfiles \cup p.files
                  /\ UNCHANGED rlocal
    /\ UNCHANGED <<rin, task, browsers, launched, rret, rlog>>

\* line 107
RowCompareMobile ==
    /\ rpc = "compare_mobile"
    /\ LET m == similarity(task["mobile_ref"].out.val, task["mobile_site"].out.val)
       IN  IF Raised(m)
           THEN /\ rpc' = "except"
                /\ rlocal' = [rlocal EXCEPT !.exc = m.exc]
           ELSE /\ rpc' = "compare_desktop"
                /\ rlocal' = [rlocal EXCEPT !.m = m.val]
    /\ UNCHANGED <<rin, task, browsers, launched, rfiles, rret, rlog>>

\* lines 108-110
RowCompareDesktop ==
    /\ rpc = "compare_desktop"
    /\ LET d == similarity(task["desktop_ref"].out.val, task["desktop_site"].out.val)
       IN  IF Raised(d)
           THEN /\ rpc' = "except"
                /\ rlocal' = [rlocal EXCEPT !.exc = d.exc]
                /\ UNCHANGED rret
           ELSE /\ rpc' = "returned"
                /\ rret' = Returned(Ret(<<rlocal.m, d.val>>))
                /\ UNCHANGED rlocal
    /\ UNCHANGED <<rin, task, browsers, launched, rfiles, rlog>>

\* lines 111-113
RowExcept ==
    /\ rpc = "except"
    /\ LET x == row_except(rin.index, rlocal.exc)
       IN  /\ rret' = Returned(x)
           /\ rlog' = rlog \cup x.log
    /\ rpc' = "returned"
    /\ UNCHANGED <<rin, task, browsers, launched, rfiles, rlocal>>

----------------------------------------------------------------------------
(* Calls of the leaf functions *)

InitFetchIdle ==
    /\ fpc = "idle"
    /\ fin = [link |-> EmptyStr, net |-> NetFail("timeout")]
    /\ fout = Ret(None)
    /\ fgets = 0

InitScoreIdle ==
    /\ spc = "idle"
    /\ sin = [img1 |-> None, img2 |-> None]
    /\ sout = Ret(0)

\* one call of download_image_as_bytes
FetchCall ==
    /\ fpc = "call"
    /\ fout' = download_image_as_bytes(fin.link, fin.net)
    /\ fgets' = fgets + download_gets(fin.link, fin.net)
    /\ fpc' = "returned"
    /\ UNCHANGED <<fin, pipeVars, rowVars, scoreVars, countVars>>

\* one call of compare_images_bytes
ScoreCall ==
    /\ spc = "call"
    /\ sout' = compare_images_bytes(sin.img1, sin.img2)
    /\ spc' = "returned"
    /\ UNCHANGED <<sin, pipeVars, rowVars, fetchVars, countVars>>

\* the byte objects a caller can hold: what a fetch or a capture returned
ScoreInputs ==
    {BytesIO(b) : b \in RefBlobs}
    \cup {BytesIO(Screenshot(mv, l)) : mv \in BOOLEAN, l \in Lums}

----------------------------------------------------------------------------
(* Pipeline coordinator: process_google_sheet *)

\* a row of the table: the input columns, the two Match % cells (<<>> while
\* unset) and the number of times line 128-129 assigned them
TableRow(row) == [row |-> row, match |-> <<>>, writes |-> 0]
NoTable == [i \in {} |-> TableRow(NoColsRow)]
Indices == DOMAIN sheet.table

NoFuture == [done |-> FALSE, exc |-> "", val |-> NoScores]

\* What one row meets in the pipeline specification: the row's cells and
\* the world's answers while it is processed.
Case(row, e) == [row |-> row, e |-> e]
OkCap(lum) == Cap("ok", "ok", lum)
OkNet(lum) == NetOk(Png(100, 100, lum))
PipeCases ==
    { Case(GoodRow, World(OkNet(255), OkNet(255), OkCap(255), OkCap(255), "ok")),
      Case(GoodRow, World(OkNet(0), OkNet(255), OkCap(255), OkCap(255), "ok")),
      Case(GoodRow, World(NetFail("status"), OkNet(255), OkCap(255), OkCap(255), "ok")),
      Case(GoodRow, World(OkNet(255), OkNet(255), OkCap(255), Cap("ok", "nav", 0), "ok")),
      Case(GoodRow, World(OkNet(255), OkNet(255), Cap("fail", "ok", 0), OkCap(255), "ok")),
      Case(GoodRow, World(OkNet(255), OkNet(255), OkCap(255), OkCap(255), "wdesktop")),
      Case(GoodRow, World(OkNet(255), NetOk(EmptyBlob), OkCap(255), OkCap(255), "ok")),
      Case(BadLinksRow, World(OkNet(255), OkNet(255), OkCap(0), OkCap(255), "ok")),
      Case(NumUrlRow, World(OkNet(255), OkNet(255), OkCap(255), OkCap(255), "ok")) }

InitPipeIdle ==
    /\ pcMain = "idle"
    /\ sheet = [table |-> NoTable, updates |-> 0]
    /\ df = NoTable
    /\ queue = <<>>
    /\ nthreads = 0
    /\ rowst = [i \in {} |-> "none"]
    /\ started = [i \in {} |-> 0]
    /\ env = [i \in {} |-> World(NetFail("timeout"), NetFail("timeout"),
                                 Cap("fail", "ok", 0), Cap("fail", "ok", 0), "ok")]
    /\ future = [i \in {} |-> NoFuture]
    /\ results = <<>>
    /\ mergeK = 1
    /\ log = {}
    /\ files = {}
    /\ excel = [table |-> NoTable, writes |-> 0]

\* The pipeline before process_google_sheet is called on a sheet of n rows
\* whose row i meets cases[i].
InitPipe(n, cases) ==
    /\ pcMain = "connect"
    /\ sheet = [table |-> [i \in 0..(n - 1) |-> TableRow(cases[i].row)], updates |-> 0]
    /\ df = NoTable
    /\ queue = <<>>
    /\ nthreads = 0
    /\ rowst = [i \in 0..(n - 1) |-> "none"]
    /\ started = [i \in 0..(n - 1) |-> 0]
    /\ env = [i \in 0..(n - 1) |-> cases[i].e]
    /\ future = [i \in 0..(n - 1) |-> NoFuture]
    /\ results = <<>>
    /\ mergeK = 1
    /\ log = {}
    /\ files = {}
    /\ excel = [table |-> NoTable, writes |-> 0]

\* the export of line 136 moved into a finally clause around the function
\* body: it writes the (empty) table also when the set-up raised
export_in_finally(x) == [table |-> NoTable, writes |-> x.writes + 1]

\* lines 63-71: the local export after an exception of the set-up: the
\* exception leaves process_google_sheet at once and line 136 is not reached
setup_raised(x) == x

\* lines 63-71: credentials, open_by_url, get_all_records, DataFrame; any of
\* them may raise, and nothing in process_google_sheet catches it
\* ("aborted"; an exception of line 132 or 136 ends the run as "failed")
Connect ==
    /\ pcMain = "connect"
    /\ \E ok \in BOOLEAN :
         IF ok THEN /\ df' = sheet.table
                    /\ pcMain' = "submit"
                    /\ UNCHANGED excel
         ELSE /\ pcMain' = "aborted"
              /\ excel' = setup_raised(excel)
              /\ UNCHANGED df
    /\ UNCHANGED <<sheet, queue, nthreads, rowst, started, env, future, results,
                   mergeK, log, files>>

Running == {i \in Indices : rowst[i] = "running"}

\* ThreadPoolExecutor._adjust_thread_count for an executor of `cap` workers:
\* a submit spawns a worker thread while fewer than cap exist. (An executor
\* that finds an idle worker skips the spawn; that only lowers the count.)
adjust_thread_count(n, cap) == IF n < cap THEN n + 1 ELSE n

\* an executor built without max_workers=10, one thread per submitted row
unbounded_threads(n) == n + 1

\* line 117: the thread count of the outer executor after one submit
outer_threads(n) == adjust_thread_count(n, max_workers)

\* line 118: executor.submit(process_row, index, row) for the next row of
\* df.iterrows()
Submit(i) ==
    /\ pcMain = "submit"
    /\ i \in Indices /\ rowst[i] = "none"
    /\ \A j \in Indices : j < i => rowst[j] # "none"
    /\ rowst' = [rowst EXCEPT ![i] = "queued"]
    /\ queue' = Append(queue, i)
    /\ nthreads' = outer_threads(nthreads)
    /\ UNCHANGED <<pcMain, sheet, df, started, env, future, results, mergeK, log,
                   files, excel>>

\* line 118, after the last row: the dict of futures is complete
SubmitEnd ==
    /\ pcMain = "submit"
    /\ \A i \in Indices : rowst[i] # "none"
    /\ pcMain' = "collect"
    /\ UNCHANGED <<sheet, df, queue, nthreads, rowst, started, env, future, results,
                   mergeK, log, files, excel>>

\* an idle worker thread of the outer executor takes the next work item
\* and enters process_row (line 73)
StartRow(i) ==
    /\ queue # <<>> /\ i = Head(queue)
    /\ Cardinality(Running) < nthreads
    /\ queue' = Tail(queue)
    /\ rowst' = [rowst EXCEPT ![i] = "running"]
    /\ started' = [started EXCEPT ![i] = @ + 1]
    /\ UNCHANGED <<pcMain, sheet, df, nthreads, env, future, results, mergeK, log,
                   files, excel>>

\* process_row returns (or raises) and the worker stores that in the Future
ReturnRow(i) ==
    /\ i \in Indices /\ rowst[i] = "running"
    /\ LET r == process_row(i, df[i].row, env[i])
       IN  /\ future' = [future EXCEPT ![i] =
                           [done |-> TRUE, exc |-> r.exc, val |-> r.val]]
           /\ files' = files \cup r.files
           /\ log' = log \cup r.log
    /\ rowst' = [rowst EXCEPT ![i] = "done"]
    /\ UNCHANGED <<pcMain, sheet, df, queue, nthreads, started, env, results, mergeK,
                   excel>>

\* results.append((len(results), *future.result())): the tuple filed under
\* the position at which the future completed
collect_by_position(res, index, fut) ==
    IF fut.exc # ""
    THEN [results |-> res, log |-> {<<"Error in row", index>>}]
    ELSE [results |-> Append(res, <<Len(res), fut.val[1], fut.val[2]>>), log |-> {}]

\* lines 120-124 for the future of row `index`: [results, log]
collect(res, index, fut) ==
    IF fut.exc # ""
    THEN [results |-> res, log |-> {<<"Error in row", index>>}]
    ELSE [results |-> Append(res, <<index, fut.val[1], fut.val[2]>>), log |-> {}]

\* lines 119-124: as_completed yields a finished future
Collect(i) ==
    /\ pcMain = "collect"
    /\ i \in Indices /\ rowst[i] = "done"
    /\ LET c == collect(results, i, future[i])
       IN  /\ results' = c.results
           /\ log' = log \cup c.log
    /\ rowst' = [rowst EXCEPT ![i] = "yielded"]
    /\ UNCHANGED <<pcMain, sheet, df, queue, nthreads, started, env, future, mergeK,
                   files, excel>>

\* as_completed is exhausted and the with block of line 117 is left
CollectEnd ==
    /\ pcMain = "collect"
    /\ \A i \in Indices : rowst[i] = "yielded"
    /\ pcMain' = "merge"
    /\ UNCHANGED <<sheet, df, queue, nthreads, rowst, started, env, future, results,
                   mergeK, log, files, excel>>

\* df['Mobile Match %'] = ... : the assignment to the whole column
merge_whole_column(table, tuple) ==
    [i \in DOMAIN table |->
        [table[i] EXCEPT !.match = <<tuple[2], tuple[3]>>, !.writes = @ + 1]]

\* lines 128-129: df.at[index, ...] = ... for one tuple of `results`
merge(table, tuple) ==
    [table EXCEPT ![tuple[1]] =
        [@ EXCEPT !.match = <<tuple[2], tuple[3]>>, !.writes = @ + 1]]

\* a loop that is left after its first iteration
merge_done_early(k, res) == k > Len(res) \/ k > 1

\* line 127: the for loop over `results` is exhausted
merge_done(k, res) == k > Len(res)

\* lines 127-129: one iteration of the loop
Merge ==
    /\ pcMain = "merge"
    /\ ~merge_done(mergeK, results)
    /\ df' = merge(df, results[mergeK])
    /\ mergeK' = mergeK + 1
    /\ UNCHANGED <<pcMain, sheet, queue, nthreads, rowst, started, env, future,
                   results, log, files, excel>>

MergeEnd ==
    /\ pcMain = "merge"
    /\ merge_done(mergeK, results)
    /\ pcMain' = "update"
    /\ UNCHANGED <<sheet, df, queue, nthreads, rowst, started, env, future, results,
                   mergeK, log, files, excel>>

\* line 132: worksheet.update replaces the sheet's table, or raises
Update ==
    /\ pcMain = "update"
    /\ \E ok \in BOOLEAN :
         IF ok THEN /\ sheet' = [table |-> df, updates |-> sheet.updates + 1]
                    /\ pcMain' = "export"
         ELSE /\ pcMain' = "failed"
              /\ UNCHANGED sheet
    /\ UNCHANGED <<df, queue, nthreads, rowst, started, env, future, results, mergeK,
                   log, files, excel>>

\* line 136: df.to_excel writes the local export, or raises
Export ==
    /\ pcMain = "export"
    /\ \E ok \in BOOLEAN :
         IF ok THEN /\ excel' = [table |-> df, writes |-> excel.writes + 1]
                    /\ pcMain' = "done"
         ELSE /\ pcMain' = "failed"
              /\ UNCHANGED excel
    /\ UNCHANGED <<sheet, df, queue, nthreads, rowst, started, env, future, results,
                   mergeK, log, files>>


----------------------------------------------------------------------------
(* Both pools together: the outer executor's rows and each row's inner     *)
(* tasks, counted. Rows are interchangeable here, so the rows inside       *)
(* process_row are a bag of records [f, p, o]: f fetch tasks in flight, p  *)
(* capture tasks submitted and not yet launched, o capture tasks whose     *)
(* browser is open. A fetch task touches nothing but its own future, so    *)
(* the two fetches of a row are kept in flight until the row's join: the   *)
(* schedule with the most tasks in flight, whose counts bound those of     *)
(* every other schedule. What follows the join (lines 86-110) holds no     *)
(* task and no browser and is part of the step that ends the row.          *)

\* the rows of a sheet that has more rows than the outer executor has workers
PoolRows == max_workers + ExtraRows

\* a third capture task per row (say a tablet viewport)
three_captures == [f |-> 2, p |-> 3, o |-> 0]

\* lines 81-84: the four tasks a row submits: two fetches, two captures
row_submits == [f |-> 2, p |-> 2, o |-> 0]

\* the inner tasks submitted to the outer executor instead of an executor of
\* the row: a task runs only when one of the outer workers is idle
shared_executor(active, threads) == active < threads

\* line 80: ThreadPoolExecutor() gives each row an executor of its own with
\* the default max_workers (min(32, cpu_count + 4), at least 5), so each of
\* the row's four tasks gets a worker thread whatever the other rows do
inner_worker_free(active, threads) == TRUE

RECURSIVE OpenIn(_, _)
\* browsers open in the rows S of the bag B
OpenIn(S, B) ==
    IF S = {} THEN 0
    ELSE LET r == CHOOSE x \in S : TRUE
         IN  r.o * CopiesIn(r, B) + OpenIn(S \ {r}, B)

RECURSIVE InFlightIn(_, _)
\* inner tasks submitted and not finished in the rows S of the bag B
InFlightIn(S, B) ==
    IF S = {} THEN 0
    ELSE LET r == CHOOSE x \in S : TRUE
         IN  (r.f + r.p + r.o) * CopiesIn(r, B) + InFlightIn(S \ {r}, B)

OpenBrowsers == OpenIn(BagToSet(crows), crows)
InFlightTasks == InFlightIn(BagToSet(crows), crows)
ActiveRows == BagCardinality(crows)

\* the bag B with one row r replaced by q
Move(B, r, q) == (B (-) SetToBag({r})) (+) SetToBag({q})

InitCountIdle ==
    /\ cpc = "idle"
    /\ csub = 0 /\ cqueue = 0 /\ cthreads = 0
    /\ crows = EmptyBag
    /\ cdone = 0 /\ cyield = 0 /\ cmerge = 0

\* line 118: executor.submit(process_row, index, row) for the next row
CountSubmit ==
    /\ cpc = "submit"
    /\ csub < PoolRows
    /\ csub' = csub + 1
    /\ cqueue' = cqueue + 1
    /\ cthreads' = outer_threads(cthreads)
    /\ UNCHANGED <<cpc, crows, cdone, cyield, cmerge>>

\* line 118, after the last row
CountSubmitEnd ==
    /\ cpc = "submit"
    /\ csub = PoolRows
    /\ cpc' = "collect"
    /\ UNCHANGED <<csub, cqueue, cthreads, crows, cdone, cyield, cmerge>>

\* an idle outer worker takes the next row; lines 75-84: the lookups, which
\* may raise (the row then ends at line 111 with no task submitted), and
\* the four submits
CountStartRow ==
    /\ cqueue > 0
    /\ ActiveRows < cthreads
    /\ cqueue' = cqueue - 1
    /\ \E ok \in BOOLEAN :
         IF ok THEN /\ crows' = crows (+) SetToBag({row_submits})
                    /\ UNCHANGED cdone
         ELSE /\ cdone' = cdone + 1
              /\ UNCHANGED crows
    /\ UNCHANGED <<cpc, csub, cthreads, cyield, cmerge>>

\* line 41 in an inner worker: webdriver.Chrome(...) opens a browser or raises
CountLaunch ==
    /\ inner_worker_free(ActiveRows, cthreads)
    /\ \E r \in BagToSet(crows) :
         /\ r.p > 0
         /\ \E ok \in BOOLEAN :
              crows' = Move(crows, r,
                            [r EXCEPT !.p = @ - 1, !.o = IF ok THEN @ + 1 ELSE @])
    /\ UNCHANGED <<cpc, csub, cqueue, cthreads, cdone, cyield, cmerge>>

\* lines 42-51: the page is captured or fails, and finally: driver.quit()
CountQuit ==
    /\ \E r \in BagToSet(crows) :
         /\ r.o > 0
         /\ crows' = Move(crows, r, [r EXCEPT !.o = @ - 1])
    /\ UNCHANGED <<cpc, csub, cqueue, cthreads, cdone, cyield, cmerge>>

\* lines 80-113: the row's fetches end, the with block is left with all four
\* tasks finished, and process_row runs to its return
CountReturnRow ==
    /\ inner_worker_free(ActiveRows, cthreads)
    /\ \E r \in BagToSet(crows) :
         /\ r.p = 0 /\ r.o = 0
         /\ crows' = crows (-) SetToBag({r})
    /\ cdone' = cdone + 1
    /\ UNCHANGED <<cpc, csub, cqueue, cthreads, cyield, cmerge>>

\* lines 119-124: as_completed yields a finished future
CountCollect ==
    /\ cpc = "collect"
    /\ cdone > 0
    /\ cdone' = cdone - 1
    /\ cyield' = cyield + 1
    /\ UNCHANGED <<cpc, csub, cqueue, cthreads, crows, cmerge>>

\* as_completed is exhausted and the with block of line 117 is left
CountCollectEnd ==
    /\ cpc = "collect"
    /\ cyield = PoolRows
    /\ cpc' = "merge"
    /\ UNCHANGED <<csub, cqueue, cthreads, crows, cdone, cyield, cmerge>>

\* lines 127-129: one iteration of the merge loop
CountMerge ==
    /\ cpc = "merge"
    /\ cmerge < cyield
    /\ cmerge' = cmerge + 1
    /\ UNCHANGED <<cpc, csub, cqueue, cthreads, crows, cdone, cyield>>

\* line 127: the loop is exhausted; the table is merged
CountMergeEnd ==
    /\ cpc = "merge"
    /\ cmerge = cyield
    /\ cpc' = "merged"
    /\ UNCHANGED <<csub, cqueue, cthreads, crows, cdone, cyield, cmerge>>

----------------------------------------------------------------------------
(* Specifications *)

\* process_google_sheet on a sheet of at most MaxRows rows
Init ==
    /\ \E n \in 0..MaxRows : \E cases \in [0..(n - 1) -> PipeCases] : InitPipe(n, cases)
    /\ InitRowIdle /\ InitFetchIdle /\ InitScoreIdle /\ InitCountIdle

Next ==
    \/ Connect /\ UNCHANGED <<rowVars, fetchVars, scoreVars, countVars>>
    \/ \E i \in Indices : Submit(i) /\ UNCHANGED <<rowVars, fetchVars, scoreVars, countVars>>
    \/ SubmitEnd /\ UNCHANGED <<rowVars, fetchVars, scoreVars, countVars>>
    \/ \E i \in Indices : StartRow(i) /\ UNCHANGED <<rowVars, fetchVars, scoreVars, countVars>>
    \/ \E i \in Indices : ReturnRow(i) /\ UNCHANGED <<rowVars, fetchVars, scoreVars, countVars>>
    \/ \E i \in Indices : Collect(i) /\ UNCHANGED <<rowVars, fetchVars, scoreVars, countVars>>
    \/ CollectEnd /\ UNCHANGED <<rowVars, fetchVars, scoreVars, countVars>>
    \/ Merge /\ UNCHANGED <<rowVars, fetchVars, scoreVars, countVars>>
    \/ MergeEnd /\ UNCHANGED <<rowVars, fetchVars, scoreVars, countVars>>
    \/ Update /\ UNCHANGED <<rowVars, fetchVars, scoreVars, countVars>>
    \/ Export /\ UNCHANGED <<rowVars, fetchVars, scoreVars, countVars>>

Spec == Init /\ [][Next]_vars

\* the outer executor's workers on a sheet of more rows than max_workers,
\* row i meeting the (i mod 3)-th of three fixed cases
PoolCase(i) ==
    CASE i % 3 = 0 -> Case(GoodRow, World(OkNet(255), OkNet(255), OkCap(255), OkCap(255), "ok"))
      [] i % 3 = 1 -> Case(GoodRow, World(OkNet(255), OkNet(255), Cap("fail", "ok", 0), OkCap(255), "ok"))
      [] OTHER -> Case(NumUrlRow, World(OkNet(255), OkNet(255), OkCap(255), OkCap(255), "ok"))

InitPool ==
    /\ InitPipe(PoolRows, [i \in 0..(PoolRows - 1) |-> PoolCase(i)])
    /\ InitRowIdle /\ InitFetchIdle /\ InitScoreIdle /\ InitCountIdle

NextPool ==
    \/ Connect /\ UNCHANGED <<rowVars, fetchVars, scoreVars, countVars>>
    \/ \E i \in Indices : Submit(i) /\ UNCHANGED <<rowVars, fetchVars, scoreVars, countVars>>
    \/ SubmitEnd /\ UNCHANGED <<rowVars, fetchVars, scoreVars, countVars>>
    \/ \E i \in Indices : StartRow(i) /\ UNCHANGED <<rowVars, fetchVars, scoreVars, countVars>>
    \/ \E i \in Indices : ReturnRow(i) /\ UNCHANGED <<rowVars, fetchVars, scoreVars, countVars>>

SpecPool == InitPool /\ [][NextPool]_vars

\* one process_row call, for every row and index, against every world
InitRow ==
    /\ rpc = "lookup"
    /\ \E i \in 0..(MaxRows - 1), row \in RowInputs : rin = [index |-> i, row |-> row]
    /\ task = [t \in TaskSet |-> NoTask]
    /\ browsers = {}
    /\ launched = [t \in TaskSet |-> 0]
    /\ rfiles = {}
    /\ rlocal = [url |-> EmptyStr, exc |-> "", m |-> 0]
    /\ rret = NotReturned
    /\ rlog = {}
    /\ InitPipeIdle /\ InitFetchIdle /\ InitScoreIdle /\ InitCountIdle

NextRow ==
    \/ RowLookup /\ UNCHANGED <<pipeVars, fetchVars, scoreVars, countVars>>
    \/ RowSubmit /\ UNCHANGED <<pipeVars, fetchVars, scoreVars, countVars>>
    \/ \E t \in TaskSet : FetchRun(t) /\ UNCHANGED <<pipeVars, fetchVars, scoreVars, countVars>>
    \/ \E t \in TaskSet : CaptureLaunch(t) /\ UNCHANGED <<pipeVars, fetchVars, scoreVars, countVars>>
    \/ \E t \in TaskSet : CapturePage(t) /\ UNCHANGED <<pipeVars, fetchVars, scoreVars, countVars>>
    \/ \E t \in TaskSet : CaptureQuit(t) /\ UNCHANGED <<pipeVars, fetchVars, scoreVars, countVars>>
    \/ RowJoin /\ UNCHANGED <<pipeVars, fetchVars, scoreVars, countVars>>
    \/ RowResults /\ UNCHANGED <<pipeVars, fetchVars, scoreVars, countVars>>
    \/ RowMakedirs /\ UNCHANGED <<pipeVars, fetchVars, scoreVars, countVars>>
    \/ RowWriteMobile /\ UNCHANGED <<pipeVars, fetchVars, scoreVars, countVars>>
    \/ RowWriteDesktop /\ UNCHANGED <<pipeVars, fetchVars, scoreVars, countVars>>
    \/ RowCompareMobile /\ UNCHANGED <<pipeVars, fetchVars, scoreVars, countVars>>
    \/ RowCompareDesktop /\ UNCHANGED <<pipeVars, fetchVars, scoreVars, countVars>>
    \/ RowExcept /\ UNCHANGED <<pipeVars, fetchVars, scoreVars, countVars>>

SpecRow == InitRow /\ [][NextRow]_vars

\* one download_image_as_bytes call, for every link and network answer
InitFetch ==
    /\ fpc = "call"
    /\ \E link \in Links, net \in NetAnswers : fin = [link |-> link, net |-> net]
    /\ fout = Ret(None)
    /\ fgets = 0
    /\ InitPipeIdle /\ InitRowIdle /\ InitScoreIdle /\ InitCountIdle

NextFetch == FetchCall

SpecFetch == InitFetch /\ [][NextFetch]_vars

\* one compare_images_bytes call, for every pair of byte objects
InitScore ==
    /\ spc = "call"
    /\ \E a \in ScoreInputs, b \in ScoreInputs : sin = [img1 |-> a, img2 |-> b]
    /\ sout = Ret(0)
    /\ InitPipeIdle /\ InitRowIdle /\ InitFetchIdle /\ InitCountIdle

NextScore == ScoreCall

SpecScore == InitScore /\ [][NextScore]_vars


\* both pools on a sheet of more rows than max_workers, after the set-up of
\* lines 63-71 has succeeded
InitCount ==
    /\ cpc = "submit"
    /\ csub = 0 /\ cqueue = 0 /\ cthreads = 0
    /\ crows = EmptyBag
    /\ cdone = 0 /\ cyield = 0 /\ cmerge = 0
    /\ InitPipeIdle /\ InitRowIdle /\ InitFetchIdle /\ InitScoreIdle

NextCount ==
    \/ CountSubmit /\ UNCHANGED <<pipeVars, rowVars, fetchVars, scoreVars>>
    \/ CountSubmitEnd /\ UNCHANGED <<pipeVars, rowVars, fetchVars, scoreVars>>
    \/ CountStartRow /\ UNCHANGED <<pipeVars, rowVars, fetchVars, scoreVars>>
    \/ CountLaunch /\ UNCHANGED <<pipeVars, rowVars, fetchVars, scoreVars>>
    \/ CountQuit /\ UNCHANGED <<pipeVars, rowVars, fetchVars, scoreVars>>
    \/ CountReturnRow /\ UNCHANGED <<pipeVars, rowVars, fetchVars, scoreVars>>
    \/ CountCollect /\ UNCHANGED <<pipeVars, rowVars, fetchVars, scoreVars>>
    \/ CountCollectEnd /\ UNCHANGED <<pipeVars, rowVars, fetchVars, scoreVars>>
    \/ CountMerge /\ UNCHANGED <<pipeVars, rowVars, fetchVars, scoreVars>>
    \/ CountMergeEnd /\ UNCHANGED <<pipeVars, rowVars, fetchVars, scoreVars>>

\* Fairness: the threads are scheduled by the operating system and every
\* step ends (the fetch and the page wait are bounded by their 10 s
\* timeouts): while some step of the run is possible, a step is taken.
SpecCount == InitCount /\ [][NextCount]_vars /\ WF_vars(NextCount)

----------------------------------------------------------------------------
(* Properties *)

Merged == pcMain \in {"update", "export", "done"}

\* C1: when the dispatch-and-merge of process_google_sheet has finished, the
\* table holds exactly one result (a mobile, desktop pair) for every input
\* index, whatever succeeded or failed in the rows: `results` names every
\* index exactly once, the table has the sheet's indices and no others, and
\* every row's Match cells were assigned once.
C1_OneResultPerIndex ==
    Merged =>
        /\ DOMAIN df = Indices
        /\ Len(results) = Cardinality(Indices)
        /\ \A i \in Indices :
             /\ Cardinality({k \in DOMAIN results : results[k][1] = i}) = 1
             /\ Len(df[i].match) = 2
             /\ df[i].writes = 1

\* a finished two-row run in which one row failed and another scored
C1_Witness ==
    /\ pcMain = "done"
    /\ Cardinality(Indices) >= 2
    /\ \E i, j \in Indices :
         /\ <<"Error processing row", i>> \in log
         /\ df[j].match # NoScores /\ Len(df[j].match) = 2

\* C2: at every moment the number of process_row invocations that have
\* started and not yet returned is at most the cap of the outer pool, also
\* when the sheet has more rows than the cap.
C2_RunningWithinCap ==
    /\ Cardinality(Running) <= max_workers
    /\ \A i \in Indices : rowst[i] = "running" => started[i] = 1

\* max_workers rows run while a further row waits in the queue
C2_Witness ==
    /\ Cardinality(Running) = max_workers
    /\ queue # <<>>
    /\ Cardinality(Indices) > max_workers

\* C3: no exception escapes process_row: whatever was raised in its steps
\* (lookup and URL normalisation, an inner task, persistence, scoring), the
\* call returns, and it returns exactly (0.0, 0.0) after printing the row's
\* index.
C3_RowBoundary ==
    /\ rret.exc = ""
    /\ rpc = "returned" => rret.done
    /\ (rret.done /\ rlocal.exc # "") =>
          /\ rret.val = NoScores
          /\ rlog = {<<"Error processing row", rin.index>>}

\* an inner task raised, and the call has returned
C3_Witness ==
    /\ rret.done
    /\ rlocal.exc = "WebDriverException"
    /\ \E t \in TaskSet : task[t].st = "done" /\ Raised(task[t].out)

\* C4: row isolation: after the merge every row j holds the result that
\* process_row gives on row j's own cells and the world's answers to row j,
\* whatever failed in the other rows, and every row has been merged.
C4_RowIsolation ==
    Merged =>
        \A j \in Indices :
            df[j].match = process_row(j, df[j].row, env[j]).val

\* row i failed at its row boundary and row j kept a non-zero result
C4_Witness ==
    /\ Merged
    /\ \E i, j \in Indices :
         /\ i # j
         /\ <<"Error processing row", i>> \in log
         /\ df[j].match # NoScores /\ Len(df[j].match) = 2
         /\ <<"Error processing row", j>> \notin log

\* the futures of one viewport and the similarity the call returned for it
RefTask(v) == IF v = "mobile" THEN "mobile_ref" ELSE "desktop_ref"
SiteTask(v) == IF v = "mobile" THEN "mobile_site" ELSE "desktop_site"
Other(v) == IF v = "mobile" THEN "desktop" ELSE "mobile"
Views == {"mobile", "desktop"}
ReturnedFor(v) == IF v = "mobile" THEN rret.val[1] ELSE rret.val[2]
FetchOk(v) == task[RefTask(v)].st = "done" /\ Truthy(task[RefTask(v)].out.val)
CaptureOk(v) ==
    /\ task[SiteTask(v)].st = "done"
    /\ ~Raised(task[SiteTask(v)].out)
    /\ Truthy(task[SiteTask(v)].out.val)
Scorer(v) == compare_images_bytes(task[RefTask(v)].out.val, task[SiteTask(v)].out.val)

\* C5: per-viewport scoring rule: when process_row has returned, each
\* viewport whose reference fetch and capture both succeeded has the
\* Scorer's result on its own reference and capture, whatever happened to
\* the other viewport, and each other viewport has 0.0. (A viewport whose
\* Scorer call raises has no Scorer result and is left unconstrained.)
C5_PerViewportRule ==
    rret.done =>
        \A v \in Views :
            IF FetchOk(v) /\ CaptureOk(v)
            THEN Raised(Scorer(v)) \/ ReturnedFor(v) = Scorer(v).val
            ELSE ReturnedFor(v) = 0

\* C6: when the reference fetch of a viewport failed and its capture
\* succeeded, that viewport has 0.0 and the other viewport has what the
\* Scorer computes from its own reference and capture (0.0 by the rule when
\* one of them is missing).
C6_FailedFetchOtherViewport ==
    rret.done =>
        \A v \in Views :
            (task[RefTask(v)].st = "done" /\ ~FetchOk(v) /\ CaptureOk(v)) =>
                /\ ReturnedFor(v) = 0
                /\ IF FetchOk(Other(v)) /\ CaptureOk(Other(v))
                   THEN \/ Raised(Scorer(Other(v)))
                        \/ ReturnedFor(Other(v)) = Scorer(Other(v)).val
                   ELSE ReturnedFor(Other(v)) = 0

\* C7: a browser opened by a capture call is quit before the call ends, on
\* every path: only a call between its launch and its finally clause holds
\* a browser, each call launches at most one, and none is open once
\* process_row has returned.
C7_BrowserReleased ==
    /\ \A t \in TaskSet :
         /\ t \in browsers => task[t].st \in {"open", "closing"}
         /\ launched[t] <= 1
    /\ rret.done => browsers = {}

\* a capture whose page failed has ended, after launching a browser
C7_Witness ==
    \E t \in TaskSet :
        /\ task[t].st = "done"
        /\ launched[t] = 1
        /\ task[t].out = Ret(None)
        /\ t \notin browsers

\* C8: capture_screenshot_as_bytes reports every render failure, a
\* browser-launch error included, as None and never as an exception.
C8_CaptureNeverRaises ==
    \A t \in TaskSet :
        (IsCapture(t) /\ task[t].st = "done") => ~Raised(task[t].out)

\* C9: download_image_as_bytes never raises: for every source value and
\* network answer it returns None or a bytes object, after at most one GET,
\* and exactly one when the network was the cause of the failure.
C9_FetchNeverRaises ==
    fpc = "returned" =>
        /\ ~Raised(fout)
        /\ fout.val = None \/ Truthy(fout.val)
        /\ fgets <= 1
        /\ (HasScheme(fin.link.toks) /\ fin.net.kind # "ok"
            /\ ~Contains(fin.link.toks, "drive.google.com")) =>
              (fgets = 1 /\ fout.val = None)

\* a sharing link without a file identifier was answered with None
C9_Witness ==
    /\ fpc = "returned"
    /\ fin.link = DriveNoId
    /\ fout = Ret(None)
    /\ fgets = 0

\* C10: compare_images_bytes returns 0.0 and does not raise whenever one of
\* its two inputs is not a decodable image.
C10_UndecodableScoresZero ==
    spc = "returned" =>
        ((sin.img1.b.fmt # "png" \/ sin.img2.b.fmt # "png") => sout = Ret(0))

\* C11: order independence: the merged table is a function of the sheet's
\* rows and of the world's answers to each row alone. In every interleaving
\* and completion order each tuple of `results` carries the index of the row
\* it was computed for, and the merged table holds for every index what
\* process_row gives for that row, so two runs on the same inputs end with
\* the same table.
C11_OrderIndependence ==
    /\ \A k \in DOMAIN results :
         /\ results[k][1] \in Indices
         /\ future[results[k][1]].done
         /\ <<results[k][2], results[k][3]>> = future[results[k][1]].val
    /\ Merged =>
         df = [i \in Indices |->
                 [row |-> sheet.table[i].row,
                  match |-> process_row(i, sheet.table[i].row, env[i]).val,
                  writes |-> 1]]

\* two rows with different results were merged after the later row
\* completed first
C11_Witness ==
    /\ Merged
    /\ Len(results) = 2
    /\ results[1][1] > results[2][1]
    /\ df[0].match # df[1].match

\* C13: join without cancellation: process_row reads no task result,
\* persists nothing and scores nothing before each of its four tasks has
\* finished; a task that failed leaves its siblings to run to their end
\* (each capture has launched its browser or failed to launch it); and no
\* inner task is still running when process_row returns.
C13_JoinWithoutCancellation ==
    /\ (rpc \notin {"lookup", "submit", "join"} /\ \E t \in TaskSet : task[t] # NoTask) =>
          \A t \in TaskSet :
              /\ task[t].st = "done"
              /\ IsCapture(t) => (launched[t] = 1 \/ Raised(task[t].out))
    /\ (rfiles # {} \/ rlocal.m # 0) => \A t \in TaskSet : task[t].st = "done"
    /\ rret.done => \A t \in TaskSet : task[t] = NoTask \/ task[t].st = "done"

\* one capture failed to launch and the row returned after its sibling
\* capture and both fetches had run to a successful end
C13_Witness ==
    /\ rret.done
    /\ Raised(task["mobile_site"].out)
    /\ CaptureOk("desktop") /\ launched["desktop_site"] = 1
    /\ FetchOk("mobile") /\ FetchOk("desktop")

\* C14: single-writer, write-once aggregation: `results` and the table
\* change only in steps of the coordinator (`results` grows by appending the
\* tuple of a row whose future is done, the table changes only when it is
\* read and in the merge loop); a row's result cells are assigned once, only
\* after that row's process_row has completed and been collected, and are
\* never changed afterwards.
C14_SingleWriterWriteOnce ==
    [][ /\ results' # results =>
             /\ pcMain = "collect"
             /\ Len(results') = Len(results) + 1
             /\ SubSeq(results', 1, Len(results)) = results
             /\ \E i \in Indices :
                  /\ rowst[i] = "done" /\ rowst'[i] = "yielded" /\ future[i].done
                  /\ results'[Len(results')][1] = i
        /\ df' # df => pcMain \in {"connect", "merge"}
        /\ \A i \in DOMAIN df : df[i].writes >= 1 => (i \in DOMAIN df' /\ df'[i] = df[i])
        /\ \A i \in DOMAIN df' :
             /\ df'[i].writes <= 1
             /\ df'[i].writes = 1 => (future[i].done /\ rowst[i] = "yielded")
      ]_vars

\* inside the merge loop: one row's cells are assigned, another row's not yet
C14_Witness ==
    /\ pcMain = "merge"
    /\ \E i, j \in Indices : df[i].writes = 1 /\ df[j].writes = 0

\* C15: screenshot persistence: when process_row has returned, the bytes of
\* every viewport whose capture succeeded have been written to the location
\* derived from (viewport, index), whatever the row's other three tasks did;
\* a viewport whose capture failed has no file; nothing else is written; and
\* distinct (viewport, index) pairs have distinct locations. (A row stopped
\* by a failure of the file system itself is left unconstrained.)
C15_ScreenshotPersisted ==
    /\ rret.done =>
          /\ \A v \in Views :
               /\ (CaptureOk(v) /\ rlocal.exc # "OSError") => Path(v, rin.index) \in rfiles
               /\ ~CaptureOk(v) => Path(v, rin.index) \notin rfiles
          /\ rfiles \subseteq {Path(v, rin.index) : v \in Views}
    /\ \A v, w \in Views : \A i, j \in 0..MaxRows :
          Path(v, i) = Path(w, j) => (v = w /\ i = j)

\* C16: a persistence failure is not fatal: when makedirs or a screenshot
\* write failed, the row is still scored, and process_row returns the two
\* similarities it returns when the writes succeed, those of lines 107-108
\* on the four task results.
C16_PersistenceNotFatal ==
    (rret.done /\ rlocal.exc = "OSError") =>
        rret.val = row_end(rin.index,
                           row_persisted([exc |-> "", files |-> {}],
                                         row_scores(task["mobile_ref"].out.val,
                                                    task["desktop_ref"].out.val,
                                                    task["mobile_site"].out.val,
                                                    task["desktop_site"].out.val))).val

\* C18: a failure of the set-up (credentials, opening the sheet, reading
\* its rows) aborts the run before any row is dispatched: no row was
\* submitted or started, no process_row ran (so no fetch and no browser),
\* no screenshot was written, and neither the sheet nor the local export was
\* written.
C18_AbortBeforeDispatch ==
    pcMain = "aborted" =>
        /\ \A i \in Indices :
             /\ rowst[i] = "none" /\ started[i] = 0 /\ ~future[i].done
             /\ sheet.table[i].match = <<>>
        /\ queue = <<>> /\ nthreads = 0
        /\ results = <<>> /\ df = NoTable
        /\ files = {} /\ log = {}
        /\ sheet.updates = 0
        /\ excel.writes = 0 /\ excel.table = NoTable

\* the set-up failed on a sheet that has rows
C18_Witness ==
    /\ pcMain = "aborted"
    /\ Cardinality(Indices) = MaxRows

AllMerged ==
    /\ pcMain \notin {"connect", "aborted", "submit", "collect", "merge"}
    /\ mergeK = Len(results) + 1
    /\ \A i \in Indices : rowst[i] = "yielded" /\ DOMAIN df = Indices /\ df[i].writes = 1

\* C19: the write-back to the sheet and the local export each happen at
\* most once in a run, and only after every row has completed and every
\* result has been merged: what a sink holds is the fully merged table.
C19_SinksWrittenOnceAfterMerge ==
    /\ sheet.updates <= 1
    /\ excel.writes <= 1
    /\ sheet.updates = 1 => (AllMerged /\ sheet.table = df)
    /\ excel.writes = 1 => (AllMerged /\ excel.table = df)
    /\ pcMain \in {"export", "done"} => sheet.updates = 1
    /\ pcMain = "done" => excel.writes = 1

\* both sinks hold the merged table of a two-row sheet
C19_Witness ==
    /\ pcMain = "done"
    /\ Cardinality(Indices) = 2
    /\ sheet.updates = 1 /\ excel.writes = 1
    /\ excel.table = df /\ sheet.table = df

\* C12 as stated: in every reachable state the browsers open across all
\* rows are at most the row cap.
C12_BrowsersWithinCap == OpenBrowsers <= max_workers

\* C12, amended: at most max_workers rows are inside process_row, and the
\* browsers open across all rows are at most two for each of them, so at
\* most twice the row cap.
C12_BrowsersWithinTwiceCap ==
    /\ ActiveRows <= max_workers
    /\ OpenBrowsers <= 2 * ActiveRows

\* every worker of the outer pool runs a row and each row has both its
\* browsers open
C12_Witness ==
    /\ ActiveRows = max_workers
    /\ OpenBrowsers = 2 * max_workers

\* C17: under fair scheduling and steps that end, every row is dispatched,
\* every dispatched row yields its result, and the run reaches the merged
\* table, on a sheet of more rows than the outer pool has workers: the
\* nested pools do not deadlock.
C17_RunCompletes ==
    <>(/\ cpc = "merged"
       /\ csub = PoolRows /\ cqueue = 0
       /\ crows = EmptyBag /\ cdone = 0
       /\ cyield = PoolRows /\ cmerge = PoolRows)

\* every worker of the outer pool is inside a row with all four tasks
\* pending while a further row waits in the queue
C17_Witness ==
    /\ PoolRows > max_workers
    /\ cqueue > 0
    /\ ActiveRows = max_workers
    /\ \A r \in BagToSet(crows) : r = row_submits

\* C20: each row inside process_row has at most two browsers open, one for
\* each capture it submitted and none launched again after a failure (its
\* captures pending or open never exceed the two submitted), so across all
\* rows at most 2 * max_workers browsers are open and at most
\* 4 * max_workers inner tasks are in flight.
C20_RowFanOutBounds ==
    /\ \A r \in BagToSet(crows) :
         /\ r.o <= 2
         /\ r.p + r.o <= 2
         /\ r.f + r.p + r.o <= 4
    /\ OpenBrowsers <= 2 * max_workers
    /\ InFlightTasks <= 4 * max_workers

\* ten rows, each with both fetches in flight and both browsers open
C20_Witness ==
    /\ InFlightTasks = 4 * max_workers
    /\ \A r \in BagToSet(crows) : r.o = 2 /\ r.f = 2

====
